---- MODULE Spec2Model ----
(***************************************************************************)
(* Model of 01_donor_automation_with_calendar_appointment_as_github.py:    *)
(* the start-up (environment validation, credential decoding, argument     *)
(* parsing), the target-date generator, the calendar quota and gap checks, *)
(* the scripted session on the booking site and the booking loop.          *)
(*                                                                         *)
(* Timestamps (datetime) are integers counting minutes, ordinal * 1440 +   *)
(* minute of the day, where ordinal is Python's proleptic Gregorian        *)
(* ordinal (date.toordinal()).  Date strings "%Y-%m-%d" are triples        *)
(* <<year, month, day>>; time strings "H:M Uhr" are pairs <<H, M>>.  All   *)
(* timestamps are read on one clock.  The time a run takes matters where   *)
(* the date changes under it: MidnightPasses moves the clock to the next   *)
(* midnight.                                                               *)
(***************************************************************************)
EXTENDS Integers, Sequences, FiniteSets, TLC

VARIABLES
    pc,                      \* position of the script
    exit_status,             \* "running", "ok", "error" (traceback), "usage" (argparse exit)
    error,                   \* message of the exception being propagated, "" when none
    env,                     \* the six environment variables
    temp_file,               \* TRUE while the file SERVICE_ACCOUNT_FILE exists on disk
    argv,                    \* the command line
    args,                    \* parsed arguments: [skip_booking, testing]
    clock,                   \* datetime.now()
    midnights,               \* midnights the clock has passed since the start of the run
    calendar,                \* the calendar's plasma events: set of start timestamps
    site_contacted,          \* an HTTP request was sent to the booking host
    calendar_contacted,      \* a calendar API call was issued
    requested,               \* the kinds of HTTP requests sent to the booking host
    soup,                    \* the page a CSRF token was last looked for in
    csrf_token,              \* the CSRF token last extracted, "" before
    login_response,          \* the response to the login POST
    redirect_url,            \* where the login redirects to, "" for None
    now,                     \* local "now" of get_target_dates / of the booking loop
    aug_end,                 \* get_target_dates: datetime(year, 8, 31)
    current_date,            \* get_target_dates: Monday of the week being walked
    weeks_processed,         \* get_target_dates
    is_two_appointment_week, \* get_target_dates
    week_dates,              \* get_target_dates: dates generated for the last walked week
    target_dates,            \* list of date strings
    plasma_count,            \* plasma events of the trailing 365 days
    future_count,            \* plasma events of the next 365 days
    max_new_bookings,
    available_dates,         \* open dates of the booking calendar, in page order
    idx,                     \* booking loop: position of preferred_date in target_dates
    bookings_made,
    proposed_bookings,       \* --testing: list of <<date, time>>
    can_book,                \* result of check_minimum_gap
    conflict_date,           \* result of check_minimum_gap, <<>> for None
    date_to_try,             \* date string, <<>> for None
    slots,                   \* time strings of the slots fetched for date_to_try
    selected_slot,           \* time string, <<>> when none is selected
    posted,                  \* reservations POSTed to the booking site: <<date, time>>
    inserted,                \* events inserted into the calendar: <<date, time>>
    printed,                 \* the "Proposed bookings" report, <<>> when not printed
    call,                    \* function harness: the call, [fn |-> "none"] when idle
    ret                      \* function harness: the value returned, <<>> before the call

vars_proc == <<exit_status, env, temp_file, argv, args, clock>>
vars_world == <<calendar, site_contacted, calendar_contacted>>
vars_site == <<requested, soup, csrf_token, login_response, redirect_url>>
vars_gtd == <<aug_end, current_date, weeks_processed, is_two_appointment_week, week_dates>>
vars_quota == <<plasma_count, future_count, max_new_bookings>>
vars_loop == <<available_dates, idx, bookings_made, proposed_bookings, can_book,
               conflict_date, date_to_try, slots, selected_slot>>
vars_io == <<posted, inserted, printed>>
vars_fn == <<call, ret>>
vars_out == <<vars_io, vars_fn>>
vars == <<pc, error, vars_proc, midnights, vars_world, vars_site, now, target_dates,
          vars_gtd, vars_quota, vars_loop, vars_io, vars_fn>>

\* ------------------------------------------------------------------ bounds
\* Years the clock is drawn from: FirstYear .. FirstYear + MaxYearOffset.
MaxYearOffset == 3

Years == 2025 .. (2025 + MaxYearOffset)

\* Times of day (minutes) the clock is drawn from: midnight sharp and midday.
TimesOfDay == {0, 720}

\* ---------------------------------------------------------------- datetime
MinutesPerDay == 1440

IsLeap(y) == (y % 4 = 0) /\ ((y % 100 # 0) \/ (y % 400 = 0))

DaysInMonth(y, m) ==
    IF m = 2 THEN (IF IsLeap(y) THEN 29 ELSE 28)
    ELSE IF m \in {4, 6, 9, 11} THEN 30 ELSE 31

DaysBeforeYear(y) ==
    (y - 1) * 365 + ((y - 1) \div 4) - ((y - 1) \div 100) + ((y - 1) \div 400)

RECURSIVE DaysBeforeMonth(_, _)
DaysBeforeMonth(y, m) ==
    IF m = 1 THEN 0 ELSE DaysBeforeMonth(y, m - 1) + DaysInMonth(y, m - 1)

\* date(y, m, d).toordinal()
ymd2ord(ymd) == DaysBeforeYear(ymd[1]) + DaysBeforeMonth(ymd[1], ymd[2]) + ymd[3]

\* date.fromordinal(n) as <<year, month, day>>
ord2ymd(n) ==
    LET y == CHOOSE yy \in 2023 .. (2025 + MaxYearOffset + 2) :
                 DaysBeforeYear(yy) < n /\ n <= DaysBeforeYear(yy + 1)
        r == n - DaysBeforeYear(y)
        m == CHOOSE mm \in 1 .. 12 :
                 DaysBeforeMonth(y, mm) < r /\ r <= DaysBeforeMonth(y, mm) + DaysInMonth(y, mm)
    IN <<y, m, r - DaysBeforeMonth(y, m)>>

\* datetime(y, m, d): midnight of that day
datetime(y, m, d) == ymd2ord(<<y, m, d>>) * MinutesPerDay

\* datetime.date(), as an ordinal
date(dt) == dt \div MinutesPerDay

\* datetime.weekday(): Monday is 0
weekday(dt) == (date(dt) + 6) % 7

\* timedelta(days=n)
timedelta_days(n) == n * MinutesPerDay

\* d.strftime("%Y-%m-%d")
strftime(dt) == ord2ymd(date(dt))

\* datetime.strptime(s, '%Y-%m-%d').date(), as an ordinal
strptime_date(s) == ymd2ord(s)

datetime_year(dt) == ord2ymd(date(dt))[1]

Max(a, b) == IF a >= b THEN a ELSE b

Min(a, b) == IF a <= b THEN a ELSE b

Take(s, n) == SubSeq(s, 1, Min(n, Len(s)))

\* ------------------------------------------------------- get_target_dates
\* Lines 208-227: the dates generated for the week that starts at current_date.
FirstOfWeek(monday, augEnd) ==
    IF weekday(monday) \notin {5, 6} THEN <<monday>>
    ELSE LET tuesday == monday + timedelta_days(1)
         IN IF weekday(tuesday) \notin {5, 6} /\ tuesday <= augEnd
            THEN <<tuesday>> ELSE <<>>

SecondOfWeek(first_date) ==
    IF weekday(first_date) = 1
    THEN first_date + timedelta_days(3)
    ELSE first_date + timedelta_days((3 - weekday(first_date)) % 7)

\* WeekDates with every week treated as a two-appointment week.
WeekDatesAlwaysTwo(monday, isTwo, augEnd) ==
    LET first == FirstOfWeek(monday, augEnd)
    IN IF first # <<>>
       THEN LET thursday == SecondOfWeek(first[1])
            IN IF weekday(thursday) \notin {5, 6} /\ thursday <= augEnd
               THEN Append(first, thursday) ELSE first
       ELSE first

WeekDates(monday, isTwo, augEnd) ==
    LET first == FirstOfWeek(monday, augEnd)
    IN IF isTwo /\ first # <<>>
       THEN LET thursday == SecondOfWeek(first[1])
            IN IF weekday(thursday) \notin {5, 6} /\ thursday <= augEnd
               THEN Append(first, thursday) ELSE first
       ELSE first

\* Line 230 with >= in place of >.
RECURSIVE AfterNowInclusive(_, _)
AfterNowInclusive(ds, n) ==
    IF ds = <<>> THEN <<>>
    ELSE (IF ds[1] >= n THEN <<strftime(ds[1])>> ELSE <<>>) \o AfterNowInclusive(Tail(ds), n)

\* Line 230: only dates after the current timestamp are kept, as date strings.
RECURSIVE AfterNow(_, _)
AfterNow(ds, n) ==
    IF ds = <<>> THEN <<>>
    ELSE (IF ds[1] > n THEN <<strftime(ds[1])>> ELSE <<>>) \o AfterNow(Tail(ds), n)

\* The walk started at start_date itself, whatever its weekday.
FirstDay(start_date) == start_date

\* Lines 191-205: the walk starts at the first Monday on or after max(now, May 1).
FirstMonday(start_date) ==
    IF weekday(start_date) # 0
    THEN start_date + timedelta_days((7 - weekday(start_date)) % 7)
    ELSE start_date

MaxWeeks == 8

MaxTargets == 16

GtdBegin ==
    /\ pc = "get_target_dates"
    /\ LET year == datetime_year(clock)
           may_start == datetime(year, 5, 1)
       IN /\ now' = clock
          /\ aug_end' = datetime(year, 8, 31)
          /\ current_date' = FirstMonday(Max(clock, may_start))
    /\ weeks_processed' = 0
    /\ is_two_appointment_week' = TRUE
    /\ week_dates' = <<>>
    /\ target_dates' = <<>>
    /\ pc' = "gtd_while"
    /\ UNCHANGED <<error, vars_proc, vars_world, vars_site, midnights, vars_quota,
                   vars_loop, vars_out>>

GtdWeek ==
    /\ pc = "gtd_while"
    /\ current_date <= aug_end /\ weeks_processed < MaxWeeks
    /\ week_dates' = WeekDates(current_date, is_two_appointment_week, aug_end)
    /\ target_dates' = target_dates \o AfterNow(week_dates', now)
    /\ weeks_processed' = weeks_processed + 1
    /\ is_two_appointment_week' = ~is_two_appointment_week
    /\ current_date' = current_date + timedelta_days(7)
    /\ UNCHANGED <<pc, error, vars_proc, vars_world, now, aug_end, vars_site, midnights,
                   vars_quota, vars_loop, vars_out>>

GtdReturn ==
    /\ pc = "gtd_while"
    /\ ~(current_date <= aug_end /\ weeks_processed < MaxWeeks)
    /\ target_dates' = Take(target_dates, MaxTargets)
    /\ pc' = "check_target_dates"
    /\ UNCHANGED <<error, vars_proc, vars_world, now, vars_gtd, vars_site, midnights, vars_quota, vars_loop, vars_out>>

\* ------------------------------------------------------- exception paths
\* An exception that is logged and then dropped, the loop going on.
RaiseAndGoOn(msg) == error' = msg /\ pc' = "for"

\* An exception raised inside the try block (line 256): handled at line 679.
Raise(msg) == error' = msg /\ pc' = "except"

\* An exception (or SystemExit) raised before the try block ends the process
\* at once: no handler and no finally clause is in effect.
Die(status, msg) == error' = msg /\ exit_status' = status /\ pc' = "exit"

\* ----------------------------------------------------------------- start-up
EnvNames ==
    {"SURNAME", "DONOR_ID", "RESERVATION_EMAIL", "CALENDAR_ID",
     "SERVICE_ACCOUNT_JSON", "APPOINTMENT_LOCATION"}

\* Values of the environment variables: "" is unset or empty (both falsy),
\* "ok" a well-formed value, "bad" a non-empty value that is not well-formed
\* (an e-mail address the pattern of line 27 does not match, a credential
\* that is not base64-encoded JSON, a location that names no place).
EnvValues ==
    [SURNAME : {"", "ok"}, DONOR_ID : {"", "ok"}, RESERVATION_EMAIL : {"", "bad", "ok"},
     CALENDAR_ID : {"", "ok"}, SERVICE_ACCOUNT_JSON : {"", "bad", "ok"},
     APPOINTMENT_LOCATION : {"", "bad", "ok"}]

ValidEnv == [n \in EnvNames |-> "ok"]

\* Lines 22-24
ValidateEnv ==
    /\ pc = "validate_env"
    /\ IF \E n \in EnvNames : env[n] = ""
       THEN Die("error", "Missing required environment variables")
       ELSE pc' = "validate_email" /\ UNCHANGED <<error, exit_status>>
    /\ UNCHANGED <<env, temp_file, argv, args, clock, vars_world, now, target_dates,
                   vars_gtd, vars_site, midnights, vars_quota, vars_loop, vars_out>>

\* Lines 26-28
ValidateEmail ==
    /\ pc = "validate_email"
    /\ IF env["RESERVATION_EMAIL"] # "ok"
       THEN Die("error", "Invalid RESERVATION_EMAIL format")
       ELSE pc' = "decode" /\ UNCHANGED <<error, exit_status>>
    /\ UNCHANGED <<env, temp_file, argv, args, clock, vars_world, now, target_dates,
                   vars_gtd, vars_site, midnights, vars_quota, vars_loop, vars_out>>

\* Lines 30-39: b64decode and json.loads run before the file is created.
DecodeCredentials ==
    /\ pc = "decode"
    /\ IF env["SERVICE_ACCOUNT_JSON"] # "ok"
       THEN /\ Die("error", "Failed to decode or parse base64-encoded SERVICE_ACCOUNT_JSON")
            /\ UNCHANGED temp_file
       ELSE /\ temp_file' = TRUE
            /\ pc' = "parse_args"
            /\ UNCHANGED <<error, exit_status>>
    /\ UNCHANGED <<env, argv, args, clock, vars_world, now, target_dates,
                   vars_gtd, vars_site, midnights, vars_quota, vars_loop, vars_out>>

\* Command lines: options are "--skip-booking", "--testing", "--help", and
\* "--bogus" for any argument the parser does not know.
Argvs ==
    {<<>>, <<"--skip-booking">>, <<"--testing">>, <<"--skip-booking", "--testing">>,
     <<"--help">>, <<"--bogus">>}

Has(a, opt) == \E i \in 1 .. Len(a) : a[i] = opt

\* parse_args with the --testing flag never set.
parse_args_testing_lost(a) ==
    [skip_booking |-> Has(a, "--skip-booking"), testing |-> FALSE]

\* Lines 252-253: the two store_true flags.
parse_args(a) ==
    [skip_booking |-> Has(a, "--skip-booking"), testing |-> Has(a, "--testing")]

\* Lines 250-254: parse_args() exits the process on --help (status 0) and on
\* an unknown argument (status 2).
ParseArgs ==
    /\ pc = "parse_args"
    /\ \E a \in Argvs :
        /\ argv' = a
        /\ IF Has(a, "--help") \/ Has(a, "--bogus")
           THEN Die("usage", "") /\ UNCHANGED args
           ELSE /\ args' = parse_args(a)
                /\ pc' = "get_target_dates"
                /\ UNCHANGED <<error, exit_status>>
    /\ UNCHANGED <<env, temp_file, clock, vars_world, now, target_dates,
                   vars_gtd, vars_site, midnights, vars_quota, vars_loop, vars_out>>

\* Lines 256-261
CheckTargetDates ==
    /\ pc = "check_target_dates"
    /\ IF target_dates = <<>>
       THEN Raise("No valid target dates generated")
       ELSE pc' = "authenticate" /\ UNCHANGED error
    /\ UNCHANGED <<exit_status, env, temp_file, argv, args, clock, vars_world, now,
                   target_dates, vars_gtd, vars_site, midnights, vars_quota, vars_loop, vars_out>>

\* Lines 679-681: the handler prints the error and re-raises it.
ExceptHandler ==
    /\ pc = "except"
    /\ pc' = "finally"
    /\ UNCHANGED <<error, vars_proc, vars_world, now, target_dates, vars_gtd, vars_site, midnights, vars_quota,
                   vars_loop, vars_out>>

\* Lines 683-687: session.close(), then the credential file is removed.
Finally ==
    /\ pc = "finally"
    /\ temp_file' = FALSE
    /\ exit_status' = IF error # "" THEN "error" ELSE "ok"
    /\ pc' = "exit"
    /\ UNCHANGED <<error, env, argv, args, clock, vars_world, now, target_dates,
                   vars_gtd, vars_site, midnights, vars_quota, vars_loop, vars_out>>

\* ------------------------------------------------------------ the calendar
\* Events last one hour (line 137).
EventMinutes == 60

\* events().list(timeMin, timeMax): the events that end after timeMin and
\* start before timeMax.
ListEvents(cal, time_min, time_max) ==
    {e \in cal : e + EventMinutes > time_min /\ e < time_max}

\* Lines 68-98: count_plasma_appointments
count_plasma_appointments(cal, t, future_only) ==
    IF future_only
    THEN Cardinality(ListEvents(cal, t, t + timedelta_days(365)))
    ELSE Cardinality(ListEvents(cal, t - timedelta_days(365), t))

\* Lines 57-66, 265: authenticate_google_calendar (reads the credential file).
Authenticate ==
    /\ pc = "authenticate"
    /\ \E ok \in BOOLEAN :
        IF ok THEN pc' = "count" /\ UNCHANGED error
        ELSE Raise("Failed to authenticate Google Calendar")
    /\ UNCHANGED <<exit_status, env, temp_file, argv, args, clock, vars_world, now,
                   target_dates, vars_gtd, vars_site, midnights, vars_quota, vars_loop, vars_out>>

\* Lines 266-267: the two list calls.
CountPlasma ==
    /\ pc = "count"
    /\ calendar_contacted' = TRUE
    /\ \E ok \in BOOLEAN :
        IF ok
        THEN /\ plasma_count' = count_plasma_appointments(calendar, clock, FALSE)
             /\ future_count' = count_plasma_appointments(calendar, clock, TRUE)
             /\ pc' = "quota"
             /\ UNCHANGED error
        ELSE /\ Raise("Failed counting plasma appointments")
             /\ UNCHANGED <<plasma_count, future_count>>
    /\ UNCHANGED <<exit_status, env, temp_file, argv, args, clock, calendar,
                   site_contacted, now, target_dates, vars_gtd, vars_site, midnights, max_new_bookings,
                   vars_loop, vars_out>>

MaxPerRun == 16

AnnualLimit == 60

ActiveLimit == 5

\* MaxNewBookings without the limit on active bookings.
MaxNewBookingsAnnualOnly(p, f) == Min(MaxPerRun, AnnualLimit - p)

\* Lines 283-285
MaxNewBookings(p, f) == Min(Min(MaxPerRun, AnnualLimit - p), ActiveLimit - f)

\* Lines 283-291
QuotaCheck ==
    /\ pc = "quota"
    /\ max_new_bookings' = MaxNewBookings(plasma_count, future_count)
    /\ IF max_new_bookings' <= 0
       THEN IF plasma_count >= AnnualLimit
            THEN Raise("exceeding limit of 60")
            ELSE Raise("exceeding limit of 5 active bookings")
       ELSE pc' = "login_page" /\ UNCHANGED error
    /\ UNCHANGED <<exit_status, env, temp_file, argv, args, clock, vars_world, now,
                   target_dates, vars_gtd, vars_site, midnights, plasma_count, future_count, vars_loop, vars_out>>

\* check_minimum_gap with delta < 2 in place of delta <= 2.
check_minimum_gap_one_day(cal, target_date_str) ==
    LET target_date == strptime_date(target_date_str)
        time_min == target_date * MinutesPerDay - timedelta_days(3)
        time_max == target_date * MinutesPerDay
        events == ListEvents(cal, time_min, time_max)
        close == {e \in events : target_date - date(e) < 2}
    IN IF close = {} THEN <<TRUE, <<>>>>
       ELSE <<FALSE, strftime(CHOOSE e \in close : \A o \in close : e <= o)>>

\* Lines 100-126: check_minimum_gap, as <<can_book, conflict date>>.  The
\* events come ordered by start time and the first one within 2 days decides.
check_minimum_gap(cal, target_date_str) ==
    LET target_date == strptime_date(target_date_str)
        time_min == target_date * MinutesPerDay - timedelta_days(3)
        time_max == target_date * MinutesPerDay
        events == ListEvents(cal, time_min, time_max)
        close == {e \in events : target_date - date(e) <= 2}
    IN IF close = {} THEN <<TRUE, <<>>>>
       ELSE <<FALSE, strftime(CHOOSE e \in close : \A o \in close : e <= o)>>

\* The event starting at 00:00 of date_str whatever the slot.
AppointmentStartMidnight(date_str, time_str) == strptime_date(date_str) * MinutesPerDay

\* Lines 128-164: the event add_appointment_to_calendar inserts starts on
\* date_str at the slot's time.
AppointmentStart(date_str, time_str) ==
    strptime_date(date_str) * MinutesPerDay + time_str[1] * 60 + time_str[2]

\* ------------------------------------------------------ nearby-date fallback
\* The offsets ordered by distance from the target date.
OffsetsNearestFirst == <<-1, 1, -2, 2, -3, 3, -4, 4, -5, 5>>

Offsets == <<-5, -4, -3, -2, -1, 1, 2, 3, 4, 5>>

InSeq(x, s) == \E i \in 1 .. Len(s) : s[i] = x

\* Lines 241-248: the loop over the offsets from position i on.
RECURSIVE NearbyFrom(_, _, _, _)
NearbyFrom(i, target_date, available, today) ==
    IF i > Len(Offsets) THEN <<>>
    ELSE LET nearby_date == target_date + Offsets[i]
         IN IF nearby_date <= today
            THEN NearbyFrom(i + 1, target_date, available, today)
            ELSE IF InSeq(ord2ymd(nearby_date), available)
                 THEN ord2ymd(nearby_date)
                 ELSE NearbyFrom(i + 1, target_date, available, today)

\* Lines 238-248: try_nearby_dates, <<>> for None.
try_nearby_dates(target_date_str, available, n) ==
    NearbyFrom(1, strptime_date(target_date_str), available, date(n))

\* ------------------------------------------------------------ slot choice
\* Lines 181-187: parse_time of a time string "H:M Uhr".
parse_time(time_str) == time_str[1] * 60 + time_str[2]

MinTimeMinutes == 780

\* Line 539 with >= in place of >.
RECURSIVE ValidSlotsFrom13(_)
ValidSlotsFrom13(ss) ==
    IF ss = <<>> THEN <<>>
    ELSE (IF parse_time(ss[1]) # 0 /\ parse_time(ss[1]) >= MinTimeMinutes
          THEN <<ss[1]>> ELSE <<>>) \o ValidSlotsFrom13(Tail(ss))

\* Line 539
RECURSIVE ValidSlots(_)
ValidSlots(ss) ==
    IF ss = <<>> THEN <<>>
    ELSE (IF parse_time(ss[1]) # 0 /\ parse_time(ss[1]) > MinTimeMinutes
          THEN <<ss[1]>> ELSE <<>>) \o ValidSlots(Tail(ss))

\* Line 543: min(valid_slots, key=parse_time) is the first slot of least key.
MinSlot(vs) ==
    LET i == CHOOSE j \in 1 .. Len(vs) :
                 /\ \A k \in 1 .. Len(vs) : parse_time(vs[j]) <= parse_time(vs[k])
                 /\ \A k \in 1 .. (j - 1) : parse_time(vs[k]) > parse_time(vs[j])
    IN vs[i]

\* ------------------------------------------------- session on the booking site
\* What soup.find yields for a tag's attribute: the tag is absent, the tag
\* lacks the attribute, or the attribute's value ("" when it is empty).
Absent == "<absent>"

NoAttr == "<no attribute>"

\* The input names of lines 308-311 in the opposite order.
CsrfInputNamesReversed == <<"authenticity_token", "csrf_token", "_token", "_csrf">>

\* Lines 308-311 and 578-581: the input names, in the order of the `or` chain.
CsrfInputNames == <<"_csrf", "_token", "csrf_token", "authenticity_token">>

\* Lines 307-312: the first input of the chain that is on the page, as its
\* position in CsrfInputNames; 0 for None.  A tag is truthy whatever its value.
csrf_input(inputs) ==
    IF \A i \in 1 .. Len(CsrfInputNames) : inputs[CsrfInputNames[i]] = Absent
    THEN 0
    ELSE CHOOSE i \in 1 .. Len(CsrfInputNames) :
             /\ inputs[CsrfInputNames[i]] # Absent
             /\ \A j \in 1 .. (i - 1) : inputs[CsrfInputNames[j]] = Absent

\* Lines 313-316 and 583-586: the token after the inputs and the meta tag, as
\* <<outcome, token>>.  csrf_input["value"] and meta_csrf["content"] raise
\* KeyError when the attribute is missing; an empty value counts as no token.
InputOrMetaToken(page) ==
    LET i == csrf_input(page.inputs)
        from_input == IF i = 0 THEN "" ELSE page.inputs[CsrfInputNames[i]]
    IN IF from_input = NoAttr THEN <<"KeyError", "">>
       ELSE IF from_input # "" THEN <<"ok", from_input>>
       ELSE IF page.meta = NoAttr THEN <<"KeyError", "">>
       ELSE IF page.meta \notin {Absent, ""} THEN <<"ok", page.meta>>
       ELSE <<"none", "">>

\* Lines 306-326: the token of the login page; the inline scripts are searched
\* when neither an input nor the meta tag gave one.
login_csrf_token(page) ==
    LET t == InputOrMetaToken(page)
    IN IF t[1] = "none" /\ page.script # Absent THEN <<"ok", page.script>> ELSE t

\* Lines 577-588: the token of the reservation form; the inputs are those of
\* the form, the meta tag is looked for on the whole page, scripts are not read.
reservation_csrf_token(page) == InputOrMetaToken(page)

NoPage == [kind |-> "none"]

\* Lines 293-327: GET of the login page, login form and CSRF token.
LoginPage(pages) ==
    /\ pc = "login_page"
    /\ site_contacted' = TRUE
    /\ requested' = requested \cup {"login page"}
    /\ \E page \in pages :
        IF ~page.status_ok
        THEN Raise("login page: HTTP error") /\ UNCHANGED <<soup, csrf_token>>
        ELSE /\ soup' = page
             /\ IF ~page.form
                THEN Raise("Login form not found on login page") /\ UNCHANGED csrf_token
                ELSE LET t == login_csrf_token(page)
                     IN CASE t[1] = "KeyError" -> Raise("KeyError") /\ UNCHANGED csrf_token
                          [] t[1] = "none" ->
                               Raise("No CSRF token found") /\ csrf_token' = ""
                          [] OTHER ->
                               csrf_token' = t[2] /\ pc' = "login_post" /\ UNCHANGED error
    /\ UNCHANGED <<exit_status, env, temp_file, argv, args, clock, midnights, calendar,
                   calendar_contacted, login_response, redirect_url, now, target_dates,
                   vars_gtd, vars_quota, vars_loop, vars_out>>

NoResponse == [kind |-> "none"]

\* Lines 361-382: the redirect URL, by the name of its source ("" for None),
\* and the error raised, if any.  The ValueError of line 368 is raised inside
\* the try block of line 364 and so is handled at line 369 like the one
\* login_response.json() raises for a body that is not JSON; redirect_url
\* keeps what line 366 assigned unless a later line assigns it again.
RedirectUrl(r) ==
    LET header == IF r.xhr THEN "X-Xhr-Redirect" ELSE IF r.location THEN "Location" ELSE ""
        json_url == IF r.body = "json" /\ r.json_redirect THEN "redirect_url" ELSE ""
        handled == r.body # "json" \/ r.success # "true"
        from_script == IF r.script THEN "window.location" ELSE json_url
        fallback == IF r.link THEN "login_url"
                    ELSE IF r.status \in {301, 302, 303} THEN ""
                    ELSE from_script
    IN IF header # "" THEN [url |-> header, error |-> ""]
       ELSE IF ~handled THEN [url |-> json_url, error |-> ""]
       ELSE [url |-> fallback,
             error |-> IF fallback = "" THEN "Login failed: No redirect URL found" ELSE ""]

\* Lines 329-383: POST of the login form, failure checks, redirect URL.
LoginPost(responses) ==
    /\ pc = "login_post"
    /\ requested' = requested \cup {"login"}
    /\ \E r \in responses :
        /\ login_response' = r
        /\ IF r.errors
           THEN Raise("Login failed with errors") /\ UNCHANGED redirect_url
           ELSE IF r.login_form
           THEN Raise("Login failed: Response contains login form") /\ UNCHANGED redirect_url
           ELSE /\ redirect_url' = RedirectUrl(r).url
                /\ IF RedirectUrl(r).error # ""
                   THEN Raise(RedirectUrl(r).error)
                   ELSE pc' = "centres" /\ UNCHANGED error
    /\ UNCHANGED <<vars_proc, midnights, vars_world, soup, csrf_token, now, target_dates,
                   vars_gtd, vars_quota, vars_loop, vars_out>>

CentresOutcomes == {"http_error", "no_centers", "no_leipzig", "ok"}

\* Lines 385-410: donation centres page, the Leipzig centre.  With no
\* redirect URL make_absolute_url(None) raises before the request is sent.
Centres ==
    /\ pc = "centres"
    /\ IF redirect_url = ""
       THEN Raise("AttributeError") /\ UNCHANGED requested
       ELSE /\ requested' = requested \cup {"donation centres"}
            /\ \E outcome \in CentresOutcomes :
                CASE outcome = "http_error" -> Raise("donation centers page: HTTP error")
                  [] outcome = "no_centers" -> Raise("No donation centers found")
                  [] outcome = "no_leipzig" -> Raise("Leipzig center not found")
                  [] OTHER -> pc' = "termine" /\ UNCHANGED error
    /\ UNCHANGED <<vars_proc, midnights, vars_world, soup, csrf_token, login_response,
                   redirect_url, now, target_dates, vars_gtd, vars_quota, vars_loop,
                   vars_out>>

TermineOutcomes == {"http_error", "no_types", "no_plasma", "ok"}

\* Lines 412-444: appointment page, the donation type "pp".
Termine ==
    /\ pc = "termine"
    /\ requested' = requested \cup {"appointments"}
    /\ \E outcome \in TermineOutcomes :
        CASE outcome = "http_error" -> Raise("appointment page: HTTP error")
          [] outcome = "no_types" -> Raise("No donation types found")
          [] outcome = "no_plasma" -> Raise("Plasmaspende not found or disabled")
          [] OTHER -> pc' = "plasma_page" /\ UNCHANGED error
    /\ UNCHANGED <<vars_proc, midnights, vars_world, soup, csrf_token, login_response,
                   redirect_url, now, target_dates, vars_gtd, vars_quota, vars_loop,
                   vars_out>>

\* Lines 460-470: the open dates of the page that lie after today.
RECURSIVE FutureDates(_, _)
FutureDates(ds, today) ==
    IF ds = <<>> THEN <<>>
    ELSE (IF strptime_date(ds[1]) > today THEN <<ds[1]>> ELSE <<>>)
         \o FutureDates(Tail(ds), today)

\* Open dates a plasma page shows, in page order.
OpenDateChoices ==
    {<<>>,
     <<<<2025, 8, 14>>, <<2025, 8, 18>>, <<2025, 8, 21>>, <<2025, 8, 25>>>>,
     <<<<2025, 8, 19>>, <<2025, 8, 20>>>>,
     <<<<2025, 8, 16>>>>}

\* Lines 446-471: plasma appointment page and its calendar of open dates.
PlasmaPage ==
    /\ pc = "plasma_page"
    /\ requested' = requested \cup {"plasma page"}
    /\ \/ /\ \E msg \in {"plasma page: HTTP error", "No calendar found"} : Raise(msg)
          /\ UNCHANGED available_dates
       \/ /\ \E open \in OpenDateChoices :
                available_dates' = FutureDates(open, date(clock))
          /\ pc' = "begin_loop"
          /\ UNCHANGED error
    /\ UNCHANGED <<vars_proc, midnights, vars_world, soup, csrf_token, login_response,
                   redirect_url, now, target_dates, vars_gtd, vars_quota, idx,
                   bookings_made, proposed_bookings, can_book, conflict_date, date_to_try,
                   slots, selected_slot, vars_out>>

\* ------------------------------------------------------------ booking loop
\* Lines 494-496
BeginLoop ==
    /\ pc = "begin_loop"
    /\ bookings_made' = 0
    /\ proposed_bookings' = <<>>
    /\ now' = clock
    /\ idx' = 1
    /\ pc' = "for"
    /\ UNCHANGED <<error, vars_proc, vars_world, target_dates, vars_gtd, vars_site, midnights, vars_quota,
                   available_dates, can_book, conflict_date, date_to_try, slots,
                   selected_slot, vars_out>>

\* `continue`: on to the next preferred date.
Continue == idx' = idx + 1 /\ pc' = "for"

\* The loop head without the guard of lines 498-500.
ForHeadNoCap ==
    /\ pc = "for"
    /\ IF idx > Len(target_dates)
       THEN pc' = "report"
       ELSE pc' = "gap"
    /\ UNCHANGED <<error, vars_proc, vars_world, now, target_dates, vars_gtd, vars_site,
                   midnights, vars_quota, vars_loop, vars_out>>

\* Lines 497-500: next preferred_date, or the end of the loop.
ForHead ==
    /\ pc = "for"
    /\ IF idx > Len(target_dates) \/ bookings_made >= max_new_bookings
       THEN pc' = "report"
       ELSE pc' = "gap"
    /\ UNCHANGED <<error, vars_proc, vars_world, now, target_dates, vars_gtd, vars_site, midnights, vars_quota,
                   vars_loop, vars_out>>

\* Lines 502-506: the 2-day gap rule, checked on preferred_date.
GapCheck ==
    /\ pc = "gap"
    /\ \/ /\ Raise("Failed checking minimum gap")
          /\ UNCHANGED <<can_book, conflict_date, idx>>
       \/ /\ can_book' = check_minimum_gap(calendar, target_dates[idx])[1]
          /\ conflict_date' = check_minimum_gap(calendar, target_dates[idx])[2]
          /\ IF can_book' THEN pc' = "choose" /\ UNCHANGED idx ELSE Continue
          /\ UNCHANGED error
    /\ UNCHANGED <<exit_status, env, temp_file, argv, args, clock, vars_world, now,
                   target_dates, vars_gtd, vars_site, midnights, vars_quota, available_dates, bookings_made,
                   proposed_bookings, date_to_try, slots, selected_slot, vars_out>>

\* Lines 508-522: the preferred date when it is open, else a nearby open date.
DateToTry(preferred_date, available, n) ==
    IF InSeq(preferred_date, available) THEN preferred_date
    ELSE try_nearby_dates(preferred_date, available, n)

ChooseDate ==
    /\ pc = "choose"
    /\ IF strptime_date(target_dates[idx]) <= date(now)
       THEN date_to_try' = target_dates[idx] /\ Continue
       ELSE /\ date_to_try' = DateToTry(target_dates[idx], available_dates, now)
            /\ IF date_to_try' = <<>> THEN Continue
               ELSE pc' = "fetch" /\ UNCHANGED idx
    /\ UNCHANGED <<error, vars_proc, vars_world, now, target_dates, vars_gtd, vars_site, midnights, vars_quota,
                   available_dates, bookings_made, proposed_bookings, can_book,
                   conflict_date, slots, selected_slot, vars_out>>

\* Lines 473-491, 524-535: the slots of date_to_try; --skip-booking stops here.
FetchSlots(lists) ==
    /\ pc = "fetch"
    /\ requested' = requested \cup {"slots"}
    /\ \/ /\ Raise("slots page: HTTP error")
          /\ UNCHANGED <<slots, idx>>
       \/ /\ \E ss \in lists : slots' = ss
          /\ IF slots' = <<>> \/ args.skip_booking
             THEN Continue
             ELSE pc' = "select" /\ UNCHANGED idx
          /\ UNCHANGED error
    /\ UNCHANGED <<vars_proc, midnights, vars_world, soup, csrf_token, login_response,
                   redirect_url, now, target_dates, vars_gtd, vars_quota, available_dates,
                   bookings_made, proposed_bookings, can_book, conflict_date, date_to_try,
                   selected_slot, vars_out>>

\* Lines 537-549: earliest slot after 13:00; --testing records it and goes on.
SelectSlot ==
    /\ pc = "select"
    /\ IF ValidSlots(slots) = <<>>
       THEN /\ Continue
            /\ UNCHANGED <<selected_slot, proposed_bookings, bookings_made>>
       ELSE /\ selected_slot' = MinSlot(ValidSlots(slots))
            /\ IF args.testing
               THEN /\ proposed_bookings' =
                          Append(proposed_bookings, <<date_to_try, selected_slot'>>)
                    /\ bookings_made' = bookings_made + 1
                    /\ Continue
               ELSE /\ pc' = "booking_page"
                    /\ UNCHANGED <<proposed_bookings, bookings_made, idx>>
    /\ UNCHANGED <<error, vars_proc, vars_world, now, target_dates, vars_gtd, vars_site, midnights, vars_quota,
                   available_dates, can_book, conflict_date, date_to_try, slots,
                   vars_out>>

\* Lines 551-604: booking page of the selected slot, its reservation form,
\* the form's CSRF token and e-mail fields.
BookingPage(pages) ==
    /\ pc = "booking_page"
    /\ requested' = requested \cup {"booking page"}
    /\ \E page \in pages :
        IF ~page.status_ok
        THEN Raise("booking page: HTTP error") /\ UNCHANGED <<soup, csrf_token>>
        ELSE /\ soup' = page
             /\ IF ~page.form
                THEN /\ Raise("Reservation form not found on booking page")
                     /\ UNCHANGED csrf_token
                ELSE IF ~page.action
                THEN /\ Raise("No action attribute found in reservation form")
                     /\ UNCHANGED csrf_token
                ELSE LET t == reservation_csrf_token(page)
                     IN CASE t[1] = "KeyError" -> Raise("KeyError") /\ UNCHANGED csrf_token
                          [] t[1] = "none" ->
                               /\ Raise("No CSRF token found in reservation form")
                               /\ csrf_token' = ""
                          [] OTHER ->
                               /\ csrf_token' = t[2]
                               /\ CASE page.email = "missing" ->
                                         Raise("Email input fields not found in form")
                                    [] page.email = "unnamed" ->
                                         Raise("Name attributes missing for email input fields")
                                    [] OTHER -> pc' = "submit" /\ UNCHANGED error
    /\ UNCHANGED <<vars_proc, midnights, vars_world, login_response, redirect_url, now,
                   target_dates, vars_gtd, vars_quota, vars_loop, vars_out>>

SubmitOutcomes == {"http_error", "errors", "ok"}

\* Lines 646-664: POST of the reservation form.
SubmitReservation ==
    /\ pc = "submit"
    /\ requested' = requested \cup {"reservation"}
    /\ posted' = Append(posted, <<date_to_try, selected_slot>>)
    /\ \E outcome \in SubmitOutcomes :
        CASE outcome = "http_error" -> Raise("reservation: HTTP error")
          [] outcome = "errors" -> Raise("Reservation submission failed")
          [] OTHER -> pc' = "insert" /\ UNCHANGED error
    /\ UNCHANGED <<vars_proc, midnights, vars_world, soup, csrf_token, login_response,
                   redirect_url, now, target_dates, vars_gtd, vars_quota, vars_loop,
                   inserted, printed, vars_fn>>

\* Line 136: datetime.replace(hour, minute) raises ValueError outside 0..23
\* and 0..59.
ValidClockTime(time_str) == time_str[1] <= 23 /\ time_str[2] <= 59

\* Lines 666-670, 128-164: the booking is recorded in the calendar; every
\* exception inside add_appointment_to_calendar is raised again as ValueError.
AddToCalendar ==
    /\ pc = "insert"
    /\ \/ /\ Raise("Failed creating calendar event")
          /\ UNCHANGED <<calendar, inserted, bookings_made, idx>>
       \/ /\ ValidClockTime(selected_slot)
          /\ calendar' = calendar \cup {AppointmentStart(date_to_try, selected_slot)}
          /\ inserted' = Append(inserted, <<date_to_try, selected_slot>>)
          /\ bookings_made' = bookings_made + 1
          /\ Continue
          /\ UNCHANGED error
    /\ UNCHANGED <<exit_status, env, temp_file, argv, args, clock, site_contacted,
                   calendar_contacted, now, target_dates, vars_gtd, vars_site, midnights,
                   vars_quota, available_dates, proposed_bookings, can_book,
                   conflict_date, date_to_try, slots, selected_slot, posted, printed,
                   vars_fn>>

\* Lines 672-677: the report of --testing.
Report ==
    /\ pc = "report"
    /\ printed' = IF args.testing /\ proposed_bookings # <<>>
                  THEN proposed_bookings ELSE <<>>
    /\ pc' = "finally"
    /\ UNCHANGED <<error, vars_proc, vars_world, now, target_dates, vars_gtd, vars_site, midnights, vars_quota,
                   vars_loop, posted, inserted, vars_fn>>

\* ------------------------------------------------------------- the clock
\* Midnights a run can last over.
MaxMidnights == 1

\* The steps of lines 259-493, between the `now` of get_target_dates and the
\* `now` of the booking loop (line 496).
BeforeLoop ==
    {"check_target_dates", "authenticate", "count", "quota", "login_page", "login_post",
     "centres", "termine", "plasma_page", "begin_loop"}

\* The run is still before line 496 when the day ends.
MidnightPasses ==
    /\ pc \in BeforeLoop
    /\ midnights < MaxMidnights
    /\ midnights' = midnights + 1
    /\ clock' = (date(clock) + 1) * MinutesPerDay
    /\ UNCHANGED <<pc, error, exit_status, env, temp_file, argv, args, vars_world,
                   vars_site, now, target_dates, vars_gtd, vars_quota, vars_loop,
                   vars_out>>

\* --------------------------------------------------------- function harness
\* check_minimum_gap and try_nearby_dates applied to inputs drawn by Init.
CallCheckMinimumGap ==
    /\ call.fn = "check_minimum_gap" /\ ret = <<>>
    /\ ret' = check_minimum_gap(call.cal, call.target)
    /\ UNCHANGED <<pc, error, vars_proc, vars_world, now, target_dates, vars_gtd, vars_site, midnights, vars_quota,
                   vars_loop, vars_io, call>>

CallTryNearbyDates ==
    /\ call.fn = "try_nearby_dates" /\ ret = <<>>
    /\ ret' = <<try_nearby_dates(call.target, call.available, call.now)>>
    /\ UNCHANGED <<pc, error, vars_proc, vars_world, now, target_dates, vars_gtd, vars_site, midnights, vars_quota,
                   vars_loop, vars_io, call>>

\* ------------------------------------------------------------ initial states
NoArgs == [skip_booking |-> FALSE, testing |-> FALSE]

NoCall == [fn |-> "none"]

\* The script's variables before any of them is assigned.
Unassigned ==
    /\ now = 0
    /\ target_dates = <<>>
    /\ aug_end = 0
    /\ current_date = 0
    /\ weeks_processed = 0
    /\ is_two_appointment_week = TRUE
    /\ week_dates = <<>>
    /\ plasma_count = 0
    /\ future_count = 0
    /\ max_new_bookings = 0
    /\ available_dates = <<>>
    /\ idx = 0
    /\ bookings_made = 0
    /\ proposed_bookings = <<>>
    /\ can_book = TRUE
    /\ conflict_date = <<>>
    /\ date_to_try = <<>>
    /\ slots = <<>>
    /\ selected_slot = <<>>

NothingSent ==
    /\ midnights = 0
    /\ site_contacted = FALSE
    /\ calendar_contacted = FALSE
    /\ requested = {}
    /\ soup = NoPage
    /\ csrf_token = ""
    /\ login_response = NoResponse
    /\ redirect_url = ""
    /\ posted = <<>>
    /\ inserted = <<>>
    /\ printed = <<>>

\* The token each source of a page carries, so that the source used shows.
TokenOf(source) ==
    CASE source = "_csrf" -> "token of input _csrf"
      [] source = "_token" -> "token of input _token"
      [] source = "csrf_token" -> "token of input csrf_token"
      [] source = "authenticity_token" -> "token of input authenticity_token"
      [] source = "meta" -> "token of meta csrf-token"
      [] source = "script" -> "token of script csrfToken"

CsrfInputNameSet == {CsrfInputNames[i] : i \in 1 .. Len(CsrfInputNames)}

NoInputs == [n \in CsrfInputNameSet |-> Absent]

\* Every combination of the four inputs: absent, without a value attribute,
\* with an empty value, with a token.
AllInputs ==
    {[n \in CsrfInputNameSet |->
         CASE n = "_csrf" -> a [] n = "_token" -> b [] n = "csrf_token" -> c [] OTHER -> d] :
        a \in {Absent, NoAttr, "", TokenOf("_csrf")},
        b \in {Absent, NoAttr, "", TokenOf("_token")},
        c \in {Absent, NoAttr, "", TokenOf("csrf_token")},
        d \in {Absent, NoAttr, "", TokenOf("authenticity_token")}}

AllMetas == {Absent, NoAttr, "", TokenOf("meta")}

AllScripts == {Absent, TokenOf("script")}

login_page(inputs, meta, script) ==
    [kind |-> "login", status_ok |-> TRUE, form |-> TRUE, inputs |-> inputs,
     meta |-> meta, script |-> script]

booking_page(inputs, meta, script) ==
    [kind |-> "booking", status_ok |-> TRUE, form |-> TRUE, action |-> TRUE,
     inputs |-> inputs, meta |-> meta, script |-> script, email |-> "ok"]

\* The login page as the site serves it: the form carries authenticity_token
\* and the head a csrf-token meta tag.
UsualInputs == [NoInputs EXCEPT !["authenticity_token"] = TokenOf("authenticity_token")]

UsualLoginPage == login_page(UsualInputs, TokenOf("meta"), Absent)

UsualBookingPage == booking_page(UsualInputs, TokenOf("meta"), Absent)

\* Login pages of the runs explored in full: one per way lines 296-326 end.
RunLoginPages ==
    {UsualLoginPage,
     [UsualLoginPage EXCEPT !.status_ok = FALSE],
     [UsualLoginPage EXCEPT !.form = FALSE],
     login_page(NoInputs, Absent, Absent),
     login_page(NoInputs, NoAttr, Absent)}

AllLoginPages ==
    RunLoginPages \cup
        {login_page(i, m, sc) : i \in AllInputs, m \in AllMetas, sc \in AllScripts}

\* Booking pages of the runs explored in full: one per way lines 555-601 end.
RunBookingPages ==
    {UsualBookingPage,
     [UsualBookingPage EXCEPT !.status_ok = FALSE],
     [UsualBookingPage EXCEPT !.form = FALSE],
     [UsualBookingPage EXCEPT !.action = FALSE],
     booking_page(NoInputs, Absent, TokenOf("script")),
     booking_page(NoInputs, NoAttr, Absent),
     [UsualBookingPage EXCEPT !.email = "missing"],
     [UsualBookingPage EXCEPT !.email = "unnamed"]}

AllBookingPages ==
    RunBookingPages \cup
        {booking_page(i, m, sc) : i \in AllInputs, m \in AllMetas, sc \in AllScripts}

login_response_of(xhr, body, success, json_redirect, script, link, status) ==
    [kind |-> "login", errors |-> FALSE, login_form |-> FALSE, xhr |-> xhr,
     location |-> FALSE, body |-> body, success |-> success,
     json_redirect |-> json_redirect, script |-> script, link |-> link,
     status |-> status]

\* The answer to a successful login: an X-Xhr-Redirect header.
UsualLoginResponse == login_response_of(TRUE, "html", "absent", FALSE, FALSE, FALSE, 200)

\* Login responses of the runs explored in full: one per way lines 351-382 end.
RunLoginResponses ==
    {UsualLoginResponse,
     [UsualLoginResponse EXCEPT !.errors = TRUE],
     [UsualLoginResponse EXCEPT !.login_form = TRUE],
     login_response_of(FALSE, "html", "absent", FALSE, FALSE, FALSE, 200),
     login_response_of(FALSE, "json", "true", FALSE, FALSE, FALSE, 200),
     login_response_of(FALSE, "json", "false", FALSE, FALSE, FALSE, 200),
     login_response_of(FALSE, "json", "false", TRUE, FALSE, FALSE, 200)}

\* n plasma events on n consecutive days of the trailing year, m of the next.
PastEvents(t, n) == {t - timedelta_days(10 + k) : k \in 1 .. n}

FutureEvents(t, m) == {t + timedelta_days(30 + k) : k \in 1 .. m}

\* The runs explored in full: a Thursday in mid-August (three target dates
\* are left) and a day after the window (none is left).
RunNows == {datetime(2025, 8, 14) + 720, datetime(2025, 9, 10) + 720}

RunCalendars(t) ==
    {{}, {datetime(2025, 8, 15) + 840}, {datetime(2025, 8, 16) + 840},
     PastEvents(t, 58), PastEvents(t, 60), FutureEvents(t, 5)}

Init ==
    /\ pc = "validate_env"
    /\ exit_status = "running"
    /\ error = ""
    /\ env \in EnvValues
    /\ temp_file = FALSE
    /\ argv = <<>>
    /\ args = NoArgs
    /\ clock \in RunNows
    /\ calendar \in RunCalendars(clock)
    /\ NothingSent
    /\ Unassigned
    /\ call = NoCall
    /\ ret = <<>>

\* Slot lists a slots page shows in the runs explored in full.
RunSlotLists ==
    {<<>>, <<<<12, 30>>, <<13, 0>>>>, <<<<14, 0>>, <<13, 0>>, <<13, 30>>>>, <<<<24, 0>>>>}

FetchSlotsRun == FetchSlots(RunSlotLists)

LoginPageRun == LoginPage(RunLoginPages)

LoginPostRun == LoginPost(RunLoginResponses)

BookingPageRun == BookingPage(RunBookingPages)

Next ==
    \/ ValidateEnv \/ ValidateEmail \/ DecodeCredentials \/ ParseArgs
    \/ GtdBegin \/ GtdWeek \/ GtdReturn \/ CheckTargetDates
    \/ Authenticate \/ CountPlasma \/ QuotaCheck
    \/ LoginPageRun \/ LoginPostRun \/ Centres \/ Termine \/ PlasmaPage
    \/ BeginLoop \/ ForHead \/ GapCheck \/ ChooseDate \/ FetchSlotsRun \/ SelectSlot
    \/ BookingPageRun \/ SubmitReservation \/ AddToCalendar \/ Report
    \/ ExceptHandler \/ Finally \/ MidnightPasses

Spec == Init /\ [][Next]_vars

\* get_target_dates at every timestamp of the years in range.
AllNows ==
    UNION {{datetime(y, 1, 1) + timedelta_days(k) + t :
               k \in 0 .. (DaysBeforeYear(y + 1) - DaysBeforeYear(y) - 1),
               t \in TimesOfDay} : y \in Years}

InitDates ==
    /\ pc = "get_target_dates"
    /\ exit_status = "running"
    /\ error = ""
    /\ env = ValidEnv
    /\ temp_file = TRUE
    /\ argv = <<>>
    /\ args = NoArgs
    /\ clock \in AllNows
    /\ calendar = {}
    /\ NothingSent
    /\ Unassigned
    /\ call = NoCall
    /\ ret = <<>>

NextDates == GtdBegin \/ GtdWeek \/ GtdReturn

SpecDates == InitDates /\ [][NextDates]_vars

\* check_minimum_gap and try_nearby_dates on inputs drawn from bounded sets.
GapSpanDays == 6

\* Plasma events at 00:00 and at 14:00 of 2025-06-08 and the days after, and
\* one at 23:30 of 2025-06-09 (it ends on 2025-06-10).
GapEventCandidates ==
    {datetime(2025, 6, 7) + timedelta_days(k) + t : k \in 1 .. GapSpanDays, t \in {0, 840}}
        \cup {datetime(2025, 6, 9) + 1410}

GapCalls ==
    {[fn |-> "check_minimum_gap", cal |-> c, target |-> t, available |-> <<>>, now |-> 0] :
        c \in SUBSET GapEventCandidates, t \in {<<2025, 6, 12>>, <<2025, 6, 13>>}}

MaxOpen == 2

RECURSIVE DateSeq(_)
DateSeq(S) ==
    IF S = {} THEN <<>>
    ELSE LET d == CHOOSE x \in S : \A y \in S : x <= y
         IN <<ord2ymd(d)>> \o DateSeq(S \ {d})

\* Open dates: up to MaxOpen days within 6 days of the target 2025-08-21.
NearbyCalls ==
    LET t == ymd2ord(<<2025, 8, 21>>)
    IN {[fn |-> "try_nearby_dates", cal |-> {}, target |-> <<2025, 8, 21>>,
         available |-> DateSeq(S), now |-> n] :
            S \in {X \in SUBSET ((t - 6) .. (t + 6)) : Cardinality(X) <= MaxOpen},
            n \in {datetime(2025, 8, 14) + 720, datetime(2025, 8, 18) + 720,
                   datetime(2025, 8, 20), datetime(2025, 8, 22) + 720,
                   datetime(2025, 8, 27)}}

InitFn ==
    /\ pc = "call"
    /\ exit_status = "running"
    /\ error = ""
    /\ env = ValidEnv
    /\ temp_file = FALSE
    /\ argv = <<>>
    /\ args = NoArgs
    /\ clock = 0
    /\ calendar = {}
    /\ NothingSent
    /\ Unassigned
    /\ call \in GapCalls \cup NearbyCalls
    /\ ret = <<>>

NextFn == CallCheckMinimumGap \/ CallTryNearbyDates

SpecFn == InitFn /\ [][NextFn]_vars

\* The quota check on every pair of counts up to MaxPast and MaxFuture.
MaxPast == 61

MaxFuture == 6

InitQuota ==
    /\ pc = "validate_env"
    /\ exit_status = "running"
    /\ error = ""
    /\ env = ValidEnv
    /\ temp_file = FALSE
    /\ argv = <<>>
    /\ args = NoArgs
    /\ clock = datetime(2025, 8, 14) + 720
    /\ calendar \in {PastEvents(clock, p) \cup FutureEvents(clock, f) :
                        p \in 0 .. MaxPast, f \in 0 .. MaxFuture}
    /\ NothingSent
    /\ Unassigned
    /\ call = NoCall
    /\ ret = <<>>

NextQuota ==
    \/ ValidateEnv \/ ValidateEmail \/ DecodeCredentials \/ ParseArgs
    \/ GtdBegin \/ GtdWeek \/ GtdReturn \/ CheckTargetDates
    \/ Authenticate \/ CountPlasma \/ QuotaCheck \/ LoginPageRun
    \/ ExceptHandler \/ Finally

SpecQuota == InitQuota /\ [][NextQuota]_vars

\* The booking loop on every slot list of up to MaxSlots slots, from the
\* state in which the slots of the first target date are about to be fetched.
MaxSlots == 3

SlotTimes == {<<12, 30>>, <<13, 0>>, <<13, 30>>, <<14, 0>>}

AllSlotLists == UNION {[1 .. n -> SlotTimes] : n \in 0 .. MaxSlots}

FetchSlotsAll == FetchSlots(AllSlotLists)

InitSlots ==
    /\ pc = "fetch"
    /\ exit_status = "running"
    /\ error = ""
    /\ env = ValidEnv
    /\ temp_file = TRUE
    /\ argv \in {a \in Argvs : ~Has(a, "--help") /\ ~Has(a, "--bogus")}
    /\ args = parse_args(argv)
    /\ clock = datetime(2025, 8, 14) + 720
    /\ midnights = 0
    /\ calendar = {}
    /\ site_contacted = TRUE
    /\ calendar_contacted = TRUE
    /\ requested = {"login page", "login", "donation centres", "appointments", "plasma page"}
    /\ soup = UsualLoginPage
    /\ csrf_token = TokenOf("authenticity_token")
    /\ login_response = UsualLoginResponse
    /\ redirect_url = "X-Xhr-Redirect"
    /\ posted = <<>>
    /\ inserted = <<>>
    /\ printed = <<>>
    /\ now = clock
    /\ target_dates = <<<<2025, 8, 18>>, <<2025, 8, 21>>, <<2025, 8, 25>>>>
    /\ aug_end = datetime(2025, 8, 31)
    /\ current_date = datetime(2025, 9, 1) + 720
    /\ weeks_processed = 2
    /\ is_two_appointment_week = TRUE
    /\ week_dates = <<datetime(2025, 8, 25) + 720>>
    /\ plasma_count = 0
    /\ future_count = 0
    /\ max_new_bookings = 5
    /\ available_dates = <<<<2025, 8, 18>>, <<2025, 8, 21>>, <<2025, 8, 25>>>>
    /\ idx = 1
    /\ bookings_made = 0
    /\ proposed_bookings = <<>>
    /\ can_book = TRUE
    /\ conflict_date = <<>>
    /\ date_to_try = <<2025, 8, 18>>
    /\ slots = <<>>
    /\ selected_slot = <<>>
    /\ call = NoCall
    /\ ret = <<>>

NextSlots ==
    \/ ForHead \/ GapCheck \/ ChooseDate \/ FetchSlotsAll \/ SelectSlot
    \/ BookingPageRun \/ SubmitReservation \/ AddToCalendar \/ Report
    \/ ExceptHandler \/ Finally

SpecSlots == InitSlots /\ [][NextSlots]_vars

\* The run of 2025-08-14 12:00 with an empty calendar and no arguments, after
\* the quota check.
MidAugustRun ==
    /\ exit_status = "running"
    /\ error = ""
    /\ env = ValidEnv
    /\ temp_file = TRUE
    /\ argv = <<>>
    /\ args = NoArgs
    /\ clock = datetime(2025, 8, 14) + 720
    /\ midnights = 0
    /\ calendar = {}
    /\ calendar_contacted = TRUE
    /\ posted = <<>>
    /\ inserted = <<>>
    /\ printed = <<>>
    /\ target_dates = <<<<2025, 8, 18>>, <<2025, 8, 21>>, <<2025, 8, 25>>>>
    /\ aug_end = datetime(2025, 8, 31)
    /\ current_date = datetime(2025, 9, 1) + 720
    /\ weeks_processed = 2
    /\ is_two_appointment_week = TRUE
    /\ week_dates = <<datetime(2025, 8, 25) + 720>>
    /\ now = clock
    /\ plasma_count = 0
    /\ future_count = 0
    /\ max_new_bookings = 5
    /\ call = NoCall
    /\ ret = <<>>

LoopUnassigned ==
    /\ available_dates = <<>>
    /\ idx = 0
    /\ bookings_made = 0
    /\ proposed_bookings = <<>>
    /\ can_book = TRUE
    /\ conflict_date = <<>>
    /\ date_to_try = <<>>
    /\ slots = <<>>
    /\ selected_slot = <<>>

\* That run about to fetch the login page.
AtLoginPage ==
    /\ MidAugustRun
    /\ pc = "login_page"
    /\ site_contacted = FALSE
    /\ requested = {}
    /\ soup = NoPage
    /\ csrf_token = ""
    /\ login_response = NoResponse
    /\ redirect_url = ""
    /\ LoopUnassigned

\* That run about to send the login form of the usual login page.
AtLoginPost ==
    /\ MidAugustRun
    /\ pc = "login_post"
    /\ site_contacted = TRUE
    /\ requested = {"login page"}
    /\ soup = UsualLoginPage
    /\ csrf_token = TokenOf("authenticity_token")
    /\ login_response = NoResponse
    /\ redirect_url = ""
    /\ LoopUnassigned

\* That run about to fetch the booking page of 2025-08-18, 13:30.
AtBookingPage ==
    /\ MidAugustRun
    /\ pc = "booking_page"
    /\ site_contacted = TRUE
    /\ requested = {"login page", "login", "donation centres", "appointments",
                    "plasma page", "slots"}
    /\ soup = UsualLoginPage
    /\ csrf_token = TokenOf("authenticity_token")
    /\ login_response = UsualLoginResponse
    /\ redirect_url = "X-Xhr-Redirect"
    /\ available_dates = <<<<2025, 8, 18>>, <<2025, 8, 21>>, <<2025, 8, 25>>>>
    /\ idx = 1
    /\ bookings_made = 0
    /\ proposed_bookings = <<>>
    /\ can_book = TRUE
    /\ conflict_date = <<>>
    /\ date_to_try = <<2025, 8, 18>>
    /\ slots = <<<<14, 0>>, <<13, 0>>, <<13, 30>>>>
    /\ selected_slot = <<13, 30>>

\* CSRF extraction on every login page and every booking page.
InitCsrf == AtLoginPage \/ AtBookingPage

LoginPageAll == LoginPage(AllLoginPages)

BookingPageAll == BookingPage(AllBookingPages)

NextCsrf == LoginPageAll \/ BookingPageAll \/ ExceptHandler \/ Finally

SpecCsrf == InitCsrf /\ [][NextCsrf]_vars

\* Every login response.  An HTML body has or lacks each of: a failure
\* message, the login form, a script assigning window.location, a link to a
\* centre's appointments.  A JSON body holds no markup; it has a success field
\* or none, and a redirect_url or none.  Either comes with or without each of
\* the two headers, with status 200 or 302.
AllLoginResponses ==
    {[login_response_of(xhr, "html", "absent", FALSE, script, link, status)
         EXCEPT !.errors = errors, !.login_form = login_form, !.location = location] :
        errors \in BOOLEAN, login_form \in BOOLEAN, xhr \in BOOLEAN, location \in BOOLEAN,
        script \in BOOLEAN, link \in BOOLEAN, status \in {200, 302}}
    \cup
    {[login_response_of(xhr, "json", success, json_redirect, FALSE, FALSE, status)
         EXCEPT !.location = location] :
        xhr \in BOOLEAN, location \in BOOLEAN, success \in {"true", "false", "absent"},
        json_redirect \in BOOLEAN, status \in {200, 302}}

LoginPostAll == LoginPost(AllLoginResponses)

NextLogin == LoginPostAll \/ Centres \/ ExceptHandler \/ Finally

SpecLogin == AtLoginPost /\ [][NextLogin]_vars

\* A run at every timestamp of the years in range, from get_target_dates on,
\* with the midnights that pass before the booking loop starts.
LoginPageUsual == LoginPage({UsualLoginPage})

LoginPostUsual == LoginPost({UsualLoginResponse})

BookingPageUsual == BookingPage({UsualBookingPage})

FetchSlotsUsual == FetchSlots({<<<<14, 0>>, <<13, 0>>, <<13, 30>>>>})

NextPast ==
    \/ GtdBegin \/ GtdWeek \/ GtdReturn \/ CheckTargetDates
    \/ Authenticate \/ CountPlasma \/ QuotaCheck
    \/ LoginPageUsual \/ LoginPostUsual \/ Centres \/ Termine \/ PlasmaPage
    \/ BeginLoop \/ ForHead \/ GapCheck \/ ChooseDate \/ FetchSlotsUsual \/ SelectSlot
    \/ BookingPageUsual \/ SubmitReservation \/ AddToCalendar \/ Report
    \/ ExceptHandler \/ Finally \/ MidnightPasses

SpecPast == InitDates /\ [][NextPast]_vars

\* ===================================================================== claims

\* C1: after the process has exited, by whatever path, the temporary file
\* holding the decoded service-account credential no longer exists.
C1_TempFileRemovedAtExit == pc = "exit" => ~temp_file

\* C2: when a required environment variable is missing or empty, or
\* APPOINTMENT_LOCATION is malformed, no network call (HTTP request to the
\* booking host, calendar API call) is ever issued.
C2_BadConfigNoNetwork ==
    ((\E n \in EnvNames : env[n] = "") \/ env["APPOINTMENT_LOCATION"] = "bad")
        => (~site_contacted /\ ~calendar_contacted)

\* C3: once a reservation has been submitted for date_to_try, the calendar
\* (pre-existing events and those inserted earlier in the run) holds no
\* plasma event on either of the 2 days before that date.
C3_GapOnBookedDate ==
    pc = "insert" =>
        \A e \in calendar : strptime_date(date_to_try) - date(e) \notin {1, 2}

\* C10: a run started with --skip-booking or --testing never POSTs a
\* reservation and never inserts a calendar event; with --testing alone
\* every selected (date, time) is collected, and a run that completes
\* prints the collected list.
C10_DryRunsBookNothing ==
    /\ (Has(argv, "--skip-booking") \/ Has(argv, "--testing"))
           => (posted = <<>> /\ inserted = <<>>)
    /\ (Has(argv, "--testing") /\ ~Has(argv, "--skip-booking"))
           => /\ Len(proposed_bookings) = bookings_made
              /\ (pc = "booking_page" => FALSE)
              /\ (pc = "exit" /\ exit_status = "ok" => printed = proposed_bookings)

\* C10 witness: a completed --testing run that printed two or more bookings.
C10_Witness ==
    /\ Has(argv, "--testing") /\ ~Has(argv, "--skip-booking")
    /\ pc = "exit" /\ exit_status = "ok"
    /\ Len(printed) >= 2

\* C6: every date get_target_dates has generated is strictly later than the
\* current timestamp: even the first minute of that date lies after it.
C6_TargetDatesAfterNow ==
    \A i \in 1 .. Len(target_dates) :
        strptime_date(target_dates[i]) * MinutesPerDay > clock

\* C6 witness: the clock stands at midnight sharp of a Monday inside the
\* window (the Monday the walk starts at is today) and dates were returned.
C6_Witness ==
    /\ pc = "check_target_dates"
    /\ target_dates # <<>>
    /\ weekday(clock) = 0 /\ clock % MinutesPerDay = 0
    /\ clock > datetime(datetime_year(clock), 5, 1)

\* The step of get_target_dates that walks week k = weeks_processed.
WalksWeek == pc = "gtd_while" /\ weeks_processed' = weeks_processed + 1

\* C7 as stated: at most 8 weeks are walked; week k contributes two dates,
\* its first weekday and the date 3 days later, when k is even and one date
\* when k is odd; the list never holds more than 16 dates.
C7_AlternatingWeeksAsStated ==
    [][/\ weeks_processed' <= 8
       /\ Len(target_dates') <= 16
       /\ WalksWeek =>
            target_dates' = target_dates \o
                (IF weeks_processed % 2 = 0
                 THEN <<ord2ymd(date(current_date)), ord2ymd(date(current_date) + 3)>>
                 ELSE <<ord2ymd(date(current_date))>>)]_vars

\* C7 amended: at most 8 consecutive weeks are walked; week k contributes
\* its Monday unless that Monday is not strictly after now, and, when k is
\* even, also the Thursday 3 days later unless that timestamp (it keeps the
\* walk's time of day) lies after 00:00 of Aug 31; an odd week contributes
\* nothing else; the list never holds more than 16 dates.
C7_AlternatingWeeks ==
    [][/\ weeks_processed' <= 8
       /\ Len(target_dates') <= 16
       /\ WalksWeek =>
            /\ weekday(current_date) = 0
            /\ current_date' = current_date + 7 * MinutesPerDay
            /\ target_dates' = target_dates
                 \o (IF current_date > clock
                     THEN <<ord2ymd(date(current_date))>> ELSE <<>>)
                 \o (IF weeks_processed % 2 = 0
                        /\ current_date + 3 * MinutesPerDay
                             <= ymd2ord(<<datetime_year(clock), 8, 31>>) * MinutesPerDay
                     THEN <<ord2ymd(date(current_date) + 3)>> ELSE <<>>)]_vars

\* C7 witness: all 8 weeks were walked and the first, a two-appointment
\* week, lost its Monday (today), so 11 dates are returned.
C7_Witness ==
    pc = "check_target_dates" /\ weeks_processed = 8 /\ Len(target_dates) = 11

\* C4: check_minimum_gap returns False and the date of a conflicting event
\* whenever a plasma event starts 1 or 2 days before the candidate date, and
\* True when every event of the 3 days before it starts exactly 3 days
\* before; an event on 2025-06-10 blocks 2025-06-12 but not 2025-06-13.
C4_GapDecision ==
    (call.fn = "check_minimum_gap" /\ ret # <<>>) =>
        LET d == ymd2ord(call.target)
            delta(e) == d - (e \div 1440)
            jun10 == ymd2ord(<<2025, 6, 10>>)
        IN /\ (\E e \in call.cal : delta(e) \in {1, 2})
                => /\ ret[1] = FALSE
                   /\ \E e \in call.cal :
                         delta(e) \in {1, 2} /\ ret[2] = ord2ymd(e \div 1440)
           /\ (\A e \in call.cal : delta(e) \in {1, 2, 3} => delta(e) = 3)
                => ret = <<TRUE, <<>>>>
           /\ (call.target = <<2025, 6, 12>> /\ \E e \in call.cal : e \div 1440 = jun10)
                => ret[1] = FALSE
           /\ (call.target = <<2025, 6, 13>> /\ \A e \in call.cal : e \div 1440 = jun10)
                => ret[1] = TRUE

\* C4 witness: the only event is on 2025-06-10 and the candidate 2025-06-12
\* has been rejected with that date.
C4_Witness ==
    /\ call.fn = "check_minimum_gap"
    /\ call.target = <<2025, 6, 12>>
    /\ call.cal = {datetime(2025, 6, 10) + 840}
    /\ ret = <<FALSE, <<2025, 6, 10>>>>

\* C5: the allowed count is min(16, 60 - p, 5 - f) (p = 58, f = 2 gives 2);
\* the run aborts, before any request to the booking site, exactly when it
\* is <= 0, and the message names a limit that is reached: the 60-per-year
\* limit only when p >= 60, the 5-active-bookings limit only when f >= 5.
C5_QuotaArithmetic ==
    LET p == plasma_count
        f == future_count
        IsAllowed(m) == /\ m <= 16 /\ m <= 60 - p /\ m <= 5 - f
                        /\ m \in {16, 60 - p, 5 - f}
        Positive == p < 60 /\ f < 5
    IN /\ pc = "login_page" => (IsAllowed(max_new_bookings) /\ max_new_bookings > 0)
       /\ (pc = "login_page" /\ p = 58 /\ f = 2) => max_new_bookings = 2
       /\ error = "exceeding limit of 60"
            => (IsAllowed(max_new_bookings) /\ max_new_bookings <= 0 /\ p >= 60)
       /\ error = "exceeding limit of 5 active bookings"
            => (IsAllowed(max_new_bookings) /\ max_new_bookings <= 0 /\ f >= 5)
       /\ error \in {"exceeding limit of 60", "exceeding limit of 5 active bookings"}
            => ~site_contacted
       /\ site_contacted => Positive

\* C5 witness: 58 trailing and 2 future events, and the run goes on with 2.
C5_Witness ==
    pc = "login_page" /\ plasma_count = 58 /\ future_count = 2 /\ max_new_bookings = 2

\* A slot t of list ss that starts after 13:00, no slot of ss after 13:00
\* starting earlier.
ChosenFrom(t, ss) ==
    /\ \E i \in 1 .. Len(ss) : ss[i] = t
    /\ t[1] * 60 + t[2] > 13 * 60
    /\ \A i \in 1 .. Len(ss) :
          ss[i][1] * 60 + ss[i][2] > 13 * 60
              => ss[i][1] * 60 + ss[i][2] >= t[1] * 60 + t[2]

\* C8: the slot selected, proposed or submitted for a date starts strictly
\* after 13:00 and is the earliest such slot of the list fetched for that
\* date; when the list has no slot after 13:00 the date is skipped and
\* nothing is submitted or proposed for it.
C8_SlotChoice ==
    [][/\ (pc = "select" /\ pc' = "booking_page") => ChosenFrom(selected_slot', slots)
       /\ posted' # posted
            => /\ ChosenFrom(posted'[Len(posted')][2], slots)
               /\ posted'[Len(posted')][1] = date_to_try
       /\ (proposed_bookings' # proposed_bookings /\ proposed_bookings' # <<>>)
            => /\ ChosenFrom(proposed_bookings'[Len(proposed_bookings')][2], slots)
               /\ proposed_bookings'[Len(proposed_bookings')][1] = date_to_try
       /\ (pc = "select" /\ \A i \in 1 .. Len(slots) : slots[i][1] * 60 + slots[i][2] <= 13 * 60)
            => /\ pc' = "for" /\ idx' = idx + 1
               /\ posted' = posted /\ proposed_bookings' = proposed_bookings]_vars

\* C8 witness: of the slots 14:00, 13:00, 13:30 the one at 13:30 was submitted.
C8_Witness ==
    /\ slots = <<<<14, 0>>, <<13, 0>>, <<13, 30>>>>
    /\ pc = "insert"
    /\ posted # <<>> /\ posted[Len(posted)][2] = <<13, 30>>

\* C9: try_nearby_dates probes target + offset for the offsets -5, -4, -3,
\* -2, -1, 1, 2, 3, 4, 5 in this order, skips the dates not after today, and
\* returns the first probed date that is open; None exactly when no probed
\* future date is open; never the target date, never more than 5 days away.
C9_NearbyOrder ==
    (call.fn = "try_nearby_dates" /\ ret # <<>>) =>
        LET r == ret[1]
            t == ymd2ord(call.target)
            today == call.now \div 1440
            probe == <<t - 5, t - 4, t - 3, t - 2, t - 1, t + 1, t + 2, t + 3, t + 4, t + 5>>
            IsOpen(i) == /\ probe[i] > today
                         /\ \E k \in 1 .. Len(call.available) :
                               call.available[k] = ord2ymd(probe[i])
        IN /\ (r = <<>>) <=> (\A i \in 1 .. 10 : ~IsOpen(i))
           /\ r # <<>> =>
                /\ \E i \in 1 .. 10 :
                      /\ IsOpen(i) /\ r = ord2ymd(probe[i])
                      /\ \A j \in 1 .. (i - 1) : ~IsOpen(j)
                /\ r # call.target
                /\ ymd2ord(r) - t \in -5 .. 5
                /\ ymd2ord(r) > today

\* C9 witness: 2025-08-17 (4 days before the target, not after today) and
\* 2025-08-22 are open on 2025-08-18, and 2025-08-22 is returned.
C9_Witness ==
    /\ call.fn = "try_nearby_dates"
    /\ call.available = <<<<2025, 8, 17>>, <<2025, 8, 22>>>>
    /\ call.now = datetime(2025, 8, 18) + 720
    /\ ret = <<<<2025, 8, 22>>>>

\* The steps of the booking loop that work on one candidate date.
DateSteps == {"gap", "choose", "fetch", "select", "booking_page", "submit", "insert"}

\* C11 as stated: a failure on a candidate date's booking page, reservation
\* form or reservation submission only skips that date, and the loop goes on
\* with the next candidate; it never aborts the run.
C11_BookingFailuresSkip ==
    [][(pc \in {"booking_page", "submit"}) => pc' # "except"]_vars

\* C11, amended: every exception raised while a candidate date is processed
\* (gap query, slots request, booking page, reservation form, reservation
\* submission, calendar insert) aborts the run: the handler and the cleanup
\* follow, and no further date is examined and no further request is sent.
\* The date is skipped, and the loop goes on with the next candidate, exactly
\* on a gap conflict, a date in the past, a date that is not open with no open
\* date nearby, an empty slot list, --skip-booking and no slot after 13:00; a
\* step on the booking page or the reservation never skips.
C11_FailuresAbortSkipsContinue ==
    [][/\ pc \in DateSteps =>
             \/ pc' = "except" /\ error' # "" /\ idx' = idx
             \/ pc' = "for" /\ error' = "" /\ idx' = idx + 1
             \/ pc' \in DateSteps /\ error' = "" /\ idx' = idx
       /\ pc \in DateSteps /\ pc' = "for" /\ bookings_made' = bookings_made =>
             \/ pc = "gap" /\ ~check_minimum_gap(calendar, target_dates[idx])[1]
             \/ pc = "choose" /\ strptime_date(target_dates[idx]) <= date(now)
             \/ pc = "choose" /\ DateToTry(target_dates[idx], available_dates, now) = <<>>
             \/ pc = "fetch" /\ (slots' = <<>> \/ args.skip_booking)
             \/ pc = "select" /\ ValidSlots(slots) = <<>>
       /\ pc = "gap" /\ pc' # "except" /\ ~check_minimum_gap(calendar, target_dates[idx])[1]
             => pc' = "for"
       /\ pc = "choose" /\ DateToTry(target_dates[idx], available_dates, now) = <<>>
             => pc' = "for"
       /\ pc = "fetch" /\ pc' # "except" /\ slots' = <<>> => pc' = "for"
       /\ pc = "select" /\ ValidSlots(slots) = <<>> => pc' = "for"
       /\ pc = "booking_page" => pc' \in {"submit", "except"}
       /\ pc = "submit" => pc' \in {"insert", "except"}
       /\ pc = "except" =>
             pc' = "finally" /\ idx' = idx /\ requested' = requested /\ posted' = posted
       /\ pc = "finally" =>
             /\ pc' = "exit" /\ idx' = idx /\ requested' = requested /\ posted' = posted
             /\ exit_status' = IF error # "" THEN "error" ELSE "ok"]_vars

\* A missing reservation form has aborted the run on the first of three
\* candidate dates.
C11_Witness ==
    /\ pc = "except"
    /\ error = "Reservation form not found on booking page"
    /\ idx < Len(target_dates)
    /\ bookings_made < max_new_bookings

\* The page in soup has a form in which a CSRF token was looked for.
TokenLookedFor ==
    /\ soup.kind \in {"login", "booking"}
    /\ soup.form
    /\ soup.kind = "booking" => soup.action

\* The six sources in the order of the claim, and what each holds on the page.
SixSources == <<"_csrf", "_token", "csrf_token", "authenticity_token", "meta", "script">>

SourceValue(page, k) ==
    IF k <= 4 THEN page.inputs[SixSources[k]]
    ELSE IF k = 5 THEN page.meta ELSE page.script

Yields(page, k) == SourceValue(page, k) \notin {Absent, NoAttr, ""}

CsrfErrors ==
    {"No CSRF token found", "No CSRF token found in reservation form", "KeyError"}

AbortedForToken == pc \in {"except", "finally", "exit"} /\ error \in CsrfErrors

\* C12 as stated: on the login page and on the reservation page the token
\* used is the value of the first of the six sources (the four inputs, the
\* meta tag, the inline script) that holds a token, and the run aborts for
\* want of a token only when none of the six holds one.
C12_FirstOfSixSources ==
    TokenLookedFor =>
        IF \E k \in 1 .. 6 : Yields(soup, k)
        THEN /\ ~AbortedForToken
             /\ \E k \in 1 .. 6 :
                    /\ Yields(soup, k)
                    /\ \A j \in 1 .. (k - 1) : ~Yields(soup, j)
                    /\ csrf_token = SourceValue(soup, k)
        ELSE AbortedForToken

\* C12, amended: only the first of the four inputs that is on the page is
\* read, whatever its value; when there is no input or its value is empty the
\* content of the csrf-token meta tag is read; on the login page, when that
\* gives nothing either, the inline-script csrfToken value is used; the
\* reservation page has no script step.  The run aborts with "No CSRF token
\* found" when these steps give no token, and with KeyError when the input
\* read has no value attribute or the meta tag read has no content attribute.
C12_TokenSource ==
    TokenLookedFor =>
        LET present == {k \in 1 .. 4 : SourceValue(soup, k) # Absent}
            first == IF present = {} THEN Absent
                     ELSE SourceValue(soup, CHOOSE k \in present : \A j \in present : k <= j)
            used == csrf_token
        IN CASE first = NoAttr -> AbortedForToken /\ error = "KeyError"
             [] first \notin {Absent, NoAttr, ""} -> used = first /\ ~AbortedForToken
             [] OTHER ->
                  CASE soup.meta = NoAttr -> AbortedForToken /\ error = "KeyError"
                    [] soup.meta \notin {Absent, NoAttr, ""} ->
                         used = soup.meta /\ ~AbortedForToken
                    [] OTHER ->
                         IF soup.kind = "login" /\ soup.script # Absent
                         THEN used = soup.script /\ ~AbortedForToken
                         ELSE /\ AbortedForToken
                              /\ error = IF soup.kind = "login"
                                         THEN "No CSRF token found"
                                         ELSE "No CSRF token found in reservation form"

\* The login page has an empty _csrf input and a _token input with a token:
\* the token sent is the one of the meta tag.
C12_Witness ==
    /\ pc = "login_post"
    /\ soup.kind = "login"
    /\ soup.inputs["_csrf"] = ""
    /\ Yields(soup, 2)
    /\ csrf_token = TokenOf("meta")

\* Where the loop is between two reservations.
BetweenReservations ==
    {"for", "gap", "choose", "fetch", "select", "booking_page", "submit", "report"}

\* C13: a reservation submission that succeeded is followed at once, before
\* another candidate date is looked at, by one calendar insert for the same
\* date and slot time; the calendar is written at no other point; and when
\* the insert fails the run stops: no further date, request or insert, the
\* handler and the cleanup run and the process ends with the error.
C13_InsertFollowsSubmission ==
    [][/\ (pc = "submit" /\ pc' # "except") =>
             /\ pc' = "insert" /\ idx' = idx
             /\ posted' = Append(posted, <<date_to_try, selected_slot>>)
             /\ inserted' = inserted
       /\ (pc = "insert") =>
             \/ /\ pc' = "for" /\ idx' = idx + 1 /\ error' = ""
                /\ posted' = posted
                /\ inserted' = Append(inserted, posted[Len(posted)])
                /\ posted[Len(posted)] = <<date_to_try, selected_slot>>
                /\ calendar' = calendar \cup
                       {strptime_date(date_to_try) * MinutesPerDay
                            + parse_time(selected_slot)}
                /\ bookings_made' = bookings_made + 1
             \/ /\ pc' = "except" /\ error' = "Failed creating calendar event"
                /\ inserted' = inserted /\ calendar' = calendar /\ posted' = posted
       /\ (inserted' # inserted \/ calendar' # calendar) => pc = "insert"
       /\ (pc' = "insert") => Len(posted') = Len(inserted') + 1
       /\ (pc' \in BetweenReservations) => posted' = inserted'
       /\ (error # "" /\ pc # "exit") =>
             /\ pc' \in {"finally", "exit"}
             /\ idx' = idx /\ posted' = posted /\ inserted' = inserted
             /\ requested' = requested /\ calendar' = calendar
       /\ (pc = "finally" /\ error # "") => exit_status' = "error" /\ ~temp_file']_vars

\* The first reservation has been submitted and recorded in the calendar, and
\* the loop has moved on to the next candidate date.
C13_Witness ==
    /\ pc = "gap"
    /\ idx = 2
    /\ posted = <<<<<<2025, 8, 18>>, <<13, 30>>>>>>
    /\ inserted = posted
    /\ datetime(2025, 8, 18) + 810 \in calendar

\* Reservations submitted so far; in --testing mode, bookings proposed.
Bookings == IF args.testing THEN Len(proposed_bookings) ELSE Len(posted)

\* C14: the reservations submitted in a run (in --testing mode the bookings
\* proposed) never exceed the allowed new-booking count computed at start, so
\* the trailing count plus the bookings stays within 60 and the future count
\* plus the bookings within 5; and no candidate date is examined once the
\* count is reached.
C14_WithinQuota ==
    /\ Bookings > 0 =>
          /\ Bookings <= max_new_bookings
          /\ plasma_count + Bookings <= 60
          /\ future_count + Bookings <= 5
    /\ bookings_made <= Bookings
    /\ pc \in DateSteps => bookings_made < max_new_bookings

\* With 58 plasma events in the trailing year two reservations were made and
\* the loop stopped with the third candidate date unexamined.
C14_Witness ==
    /\ pc = "report"
    /\ plasma_count = 58
    /\ max_new_bookings = 2
    /\ Len(posted) = 2
    /\ idx = 3
    /\ idx <= Len(target_dates)

\* C15: the dates of the reservations submitted in one run (in --testing
\* mode, of the bookings proposed) are pairwise distinct.
C15_DistinctDates ==
    /\ \A i, j \in 1 .. Len(posted) : i # j => posted[i][1] # posted[j][1]
    /\ \A i, j \in 1 .. Len(proposed_bookings) :
           i # j => proposed_bookings[i][1] # proposed_bookings[j][1]

\* C16: when the response to the login POST has neither an X-Xhr-Redirect nor
\* a Location header and its body is JSON whose success field is false or
\* absent, no request follows the login POST and the run ends with an error,
\* whether or not the JSON carries a redirect_url.
C16_FailedJsonLoginAborts ==
    (/\ login_response.kind = "login"
     /\ ~login_response.xhr /\ ~login_response.location
     /\ login_response.body = "json"
     /\ login_response.success \in {"false", "absent"}) =>
        /\ requested \subseteq {"login page", "login"}
        /\ pc = "exit" => exit_status = "error"

\* get_target_dates has just returned its list, or the booking loop is about
\* to compare a date of the list with its own `now`.
Returned == pc \in {"check_target_dates", "choose"}

\* Every target date is a Monday or a Thursday of May 1 .. Aug 31 of the year
\* get_target_dates ran in, and the list ascends by steps of 3 days or more.
MondaysAndThursdaysInWindow ==
    \E year \in {datetime_year(aug_end)} :
        \E may_1 \in {ymd2ord(<<year, 5, 1>>)}, aug_31 \in {ymd2ord(<<year, 8, 31>>)} :
            \E day \in {[i \in 1 .. Len(target_dates) |-> strptime_date(target_dates[i])]} :
                /\ \A i \in 1 .. Len(target_dates) :
                       /\ weekday(day[i] * MinutesPerDay) \in {0, 3}
                       /\ may_1 <= day[i] /\ day[i] <= aug_31
                       /\ target_dates[i][1] = year
                /\ \A i \in 1 .. (Len(target_dates) - 1) : day[i + 1] - day[i] >= 3

\* C17 as stated: every date get_target_dates returns is a Monday or a
\* Thursday between May 1 and Aug 31 of the current year, the list ascends
\* with at least 3 days between consecutive dates, and every date is later
\* than today's date, so that the booking loop never takes its "date is in
\* the past" skip.
C17_TargetDatesNeverPast ==
    Returned =>
        /\ MondaysAndThursdaysInWindow
        /\ \A i \in 1 .. Len(target_dates) : strptime_date(target_dates[i]) > date(now)
        /\ pc = "choose" => strptime_date(target_dates[idx]) > date(now)

\* C17, amended: the dates are Mondays and Thursdays of the window, ascending
\* by 3 days or more, and each is later than the date of the `now` that
\* get_target_dates read.  The booking loop reads its own `now` at line 496:
\* a target date is later than that date less the midnights passed in
\* between, so the loop's skip is never taken in a run that stays within one
\* day, and can be taken in a run that lasts over midnight.
C17_TargetDatesAfterToday ==
    Returned =>
        LET passed == IF pc \in BeforeLoop THEN 0 ELSE midnights
        IN /\ MondaysAndThursdaysInWindow
           /\ \A i \in 1 .. Len(target_dates) :
                  strptime_date(target_dates[i]) > date(now) - passed
           /\ (pc = "choose" /\ strptime_date(target_dates[idx]) <= date(now)) =>
                  /\ midnights > 0
                  /\ idx = 1

\* The run started on a Sunday, midnight passed before the loop started, and
\* the loop meets Monday's target date on Monday.
C17_Witness ==
    /\ pc = "choose"
    /\ midnights = 1
    /\ idx = 1
    /\ weekday(now) = 0
    /\ strptime_date(target_dates[idx]) = date(now)
====
